---- MODULE Spec2Model ----
(***************************************************************************)
(* A model of tasks.py: the SearchContext pipeline (open_site,             *)
(* enter_phrase, order_and_select_category, get_news, report) driving a    *)
(* LATimesLogic strategy against a paginated result site.                  *)
(*                                                                         *)
(* The browser is the environment.  Its state is the page displayed (cur), *)
(* the number of result items of every result page (pageCounts), and the   *)
(* filter panel of the result page (labels, buttonVisible, panelOpen,      *)
(* selected).  The data-timestamp attribute of an item is an input read    *)
(* when the item is visited.  A naive datetime is the record               *)
(* [year, month, day, ms] with ms the milliseconds since midnight; the     *)
(* local time zone is taken to be UTC.  An integer timestamp in            *)
(* milliseconds is kept as its quotient and remainder by the milliseconds  *)
(* of a day, [days, ms].  A text is a sequence of characters.              *)
(***************************************************************************)
EXTENDS Integers, Sequences, FiniteSets, TLC

VARIABLES clock, pageCounts, cur, labels, buttonVisible, panelOpen, selected,
          sort_by, news_logic, browserOf, calls, parameters, pc, error,
          search_results, max_date_to_search, news, page, result_index,
          attempt, clicked, downloaded, log, report, timestamp, date_time

(* clock               what datetime.now() returned last (lines 165, 175)  *)
(* pageCounts, cur     the site and the page the browser displays          *)
(* labels, buttonVisible, panelOpen, selected, sort_by                     *)
(*                     the filter panel and the sort list (lines 139-155)  *)
(* news_logic          SearchContext.__news_logic                          *)
(* browserOf           the __browser attribute of every strategy           *)
(* calls               the calls search has made, in order                 *)
(* parameters          the topic and months of NewsParameters              *)
(* pc, error           where search is, and the exception it ended with    *)
(* search_results, max_date_to_search, news, page, result_index,           *)
(* timestamp, date_time                                                    *)
(*                     the locals of get_news of these names               *)
(* attempt, clicked    the attempts made by the retry loop of this         *)
(*                     iteration, and how many of them went through        *)
(* downloaded          the files written by urlretrieve                    *)
(* log                 the messages of logging.error                       *)
(* report              the rows of the spreadsheet                         *)
vars == <<clock, pageCounts, cur, labels, buttonVisible, panelOpen, selected,
          sort_by, news_logic, browserOf, calls, parameters, pc, error,
          search_results, max_date_to_search, news, page, result_index,
          attempt, clicked, downloaded, log, report, timestamp, date_time>>

----------------------------------------------------------------------------
(* Bounds of the model. *)

MaxPages == 3

MaxItems == 2

(* The list of articles is followed up to this length. *)
MaxNews == 2

(* The pagination loop is followed for at most this many iterations. *)
MaxIter == MaxPages

----------------------------------------------------------------------------
(* Calendar arithmetic of datetime and relativedelta. *)

Dt(y, m, d, t) == [year |-> y, month |-> m, day |-> d, ms |-> t]

MsPerDay == 24 * 60 * 60 * 1000

MsPerHour == 60 * 60 * 1000

IsLeap(y) == (y % 4 = 0) /\ ((y % 100 # 0) \/ (y % 400 = 0))

DaysInMonth(y, m) ==
    IF m = 2 THEN (IF IsLeap(y) THEN 29 ELSE 28)
    ELSE IF m \in {4, 6, 9, 11} THEN 30 ELSE 31

Min(a, b) == IF a < b THEN a ELSE b

(* a < b on naive datetimes *)
DtLess(a, b) ==
    \/ a.year < b.year
    \/ a.year = b.year /\ a.month < b.month
    \/ a.year = b.year /\ a.month = b.month /\ a.day < b.day
    \/ a.year = b.year /\ a.month = b.month /\ a.day = b.day /\ a.ms < b.ms

(* dt - relativedelta(months=k): the month moves back by k, the year       *)
(* follows, the day is clamped to the length of the month reached, the     *)
(* time of day is kept.                                                    *)
MinusMonths(dt, k) ==
    LET idx == dt.year * 12 + (dt.month - 1) - k
        y   == idx \div 12
        m   == (idx % 12) + 1
    IN  Dt(y, m, Min(dt.day, DaysInMonth(y, m)), dt.ms)

(* dt.replace(day=1): only the day changes. *)
ReplaceDay1(dt) == [dt EXCEPT !.day = 1]

(* The date of day number z counted from 1970-01-01. *)
CivilFromDays(z, t) ==
    LET zz  == z + 719468
        era == zz \div 146097
        doe == zz - era * 146097
        yoe == (doe - doe \div 1460 + doe \div 36524 - doe \div 146096) \div 365
        doy == doe - (365 * yoe + yoe \div 4 - yoe \div 100)
        mp  == (5 * doy + 2) \div 153
        d   == doy - (153 * mp + 2) \div 5 + 1
        m   == IF mp < 10 THEN mp + 3 ELSE mp - 9
        y   == yoe + era * 400 + (IF m <= 2 THEN 1 ELSE 0)
    IN  Dt(y, m, d, t)

(* a <= b on naive datetimes *)
DtLeq(a, b) == a = b \/ DtLess(a, b)

----------------------------------------------------------------------------
(* get_news: the cutoff and the timestamp of an item. *)

(* months - 1 if months else 0 *)
MonthsBack(months) == IF months # 0 THEN months - 1 ELSE 0

(* (datetime.now() - relativedelta(months=...)).replace(day=1) *)
Cutoff(now, months) == ReplaceDay1(MinusMonths(now, MonthsBack(months)))

(* The values the data-timestamp attribute is read as: None when the       *)
(* attribute is absent, else its text.                                     *)
Absent == [kind |-> "absent", days |-> 0, ms |-> 0]

EmptyText == [kind |-> "empty", days |-> 0, ms |-> 0]

NonNumeric == [kind |-> "text", days |-> 0, ms |-> 0]

Digits(d, t) == [kind |-> "int", days |-> d, ms |-> t]

(* The integers are 2024-04-10T00:00:00 and 2024-02-20T12:00:00. *)
RawValues ==
    {Absent, EmptyText, NonNumeric, Digits(19823, 0), Digits(19773, 12 * MsPerHour)}

(* int(timestamp): a TypeError for None, a ValueError for a text that is   *)
(* no integer.                                                             *)
IntOutcome(raw) ==
    CASE raw.kind = "absent" -> "TypeError"
      [] raw.kind = "int"    -> "ok"
      [] OTHER               -> "ValueError"

(* datetime.fromtimestamp(int(timestamp)/1000.0) *)
FromTimestamp(raw) == CivilFromDays(raw.days, raw.ms)

(* The date of an item: now, overwritten when the timestamp parses; a      *)
(* ValueError is caught and leaves now.                                    *)
ItemDate(raw, now) == IF IntOutcome(raw) = "ok" THEN FromTimestamp(raw) ELSE now

(* Only ValueError is caught around the conversion. *)
ParseRaises(raw) == IntOutcome(raw) \notin {"ok", "ValueError"}

(* f'{page}-{timestamp}-{result_index}.png' *)
Filename(p, raw, i) == <<p, raw, i>>

----------------------------------------------------------------------------
(* Texts: the topic parameter and the labels of the filter checkboxes. *)

Space == " "

RECURSIVE LStrip(_)
LStrip(s) == IF s # <<>> /\ Head(s) = Space THEN LStrip(Tail(s)) ELSE s

RECURSIVE RStrip(_)
RStrip(s) ==
    IF s # <<>> /\ s[Len(s)] = Space THEN RStrip(SubSeq(s, 1, Len(s) - 1)) ELSE s

(* topic.strip() *)
Strip(s) == RStrip(LStrip(s))

(* The text '{0}' of the locator template. *)
Placeholder == <<"{", "0", "}">>

(* The locator of lines 150 and 151 is the template itself: it is not      *)
(* passed through format, so the label it names is the text '{0}'.         *)
WaitedLabel(clean_topic) == Placeholder

(* The locator of line 152 is the template formatted with clean_topic. *)
CheckedLabel(clean_topic) == clean_topic

(* A checkbox is visible when the page has it and the panel is open. *)
CheckboxVisible(label, labelSet, open) == label \in labelSet /\ open

(* Clicking the filters-open-button toggles the panel. *)
ClickFilterButton(open) == ~open

----------------------------------------------------------------------------
(* The inputs. *)

Strategies == {"A", "B"}

Unset == "unset"

Selenium == "selenium"

TextA == <<"a">>

TextB == <<"b">>

Topics == {<<>>, <<Space>>, TextA, <<Space, "a", Space>>, TextB, Placeholder}

LabelTexts == {TextA, TextB, Placeholder}

RECURSIVE SeqsUpTo(_, _)
SeqsUpTo(S, n) ==
    IF n = 0 THEN {<<>>}
    ELSE LET shorter == SeqsUpTo(S, n - 1)
         IN  shorter \cup {Append(q, x) : q \in shorter, x \in S}

(* A site: the number of result items of each of its result pages; the     *)
(* last page shows no next-page control, every other page shows it.        *)
Sites == SeqsUpTo(0..MaxItems, MaxPages) \ {<<>>}

(* The instants the clock is read at. *)
Instants == {Dt(2024, 5, 15, 13 * MsPerHour), Dt(2024, 5, 15, 14 * MsPerHour)}

Months == {0, 1, 3}

(* The last page taken to show the control too. *)
NextPagePresentOffByOne(c, counts) == c >= 1 /\ c <= Len(counts)

(* The next-page control is on the page displayed. *)
NextPagePresent(c, counts) == c >= 1 /\ c < Len(counts)

attempts == 3

----------------------------------------------------------------------------
(* The state after get_fresh_news_task has built SearchContext(Selenium(), *)
(* LATimesLogic()): the constructor stores the strategy and injects the    *)
(* browser.  Strategy B is another LATimesLogic() a caller may swap in.    *)

InitCommon ==
    /\ cur = 0
    /\ selected = {}
    /\ sort_by = "Relevance"
    /\ news_logic = "A"
    /\ browserOf = [s \in Strategies |-> IF s = "A" THEN Selenium ELSE Unset]
    /\ calls = <<>>
    /\ pc = "idle"
    /\ error = "none"
    /\ search_results = 0
    /\ max_date_to_search = Dt(0, 1, 1, 0)
    /\ news = <<>>
    /\ page = 0
    /\ result_index = 0
    /\ attempt = 0
    /\ clicked = 0
    /\ downloaded = {}
    /\ log = {}
    /\ report = <<>>
    /\ timestamp = Absent
    /\ date_time = Dt(0, 1, 1, 0)

Init ==
    /\ InitCommon
    /\ clock \in Instants
    /\ pageCounts \in Sites
    /\ labels = {TextA, Placeholder}
    /\ buttonVisible = TRUE
    /\ panelOpen = FALSE
    /\ parameters \in [topic : {<<>>, <<Space, "a", Space>>}, months : Months]

(* The filter panel and the topic drawn widely, on one two-page site.  The  *)
(* button that opens the panel shows in the narrow layout, where the panel *)
(* starts closed; the wide layout has no button and the panel is open.     *)
InitFilter ==
    /\ InitCommon
    /\ clock = Dt(2024, 5, 15, 13 * MsPerHour)
    /\ pageCounts = <<1, 1>>
    /\ labels \in SUBSET LabelTexts
    /\ buttonVisible \in BOOLEAN
    /\ panelOpen = ~buttonVisible
    /\ parameters \in [topic : Topics, months : {1}]

(* The sites on which a run that advances in every iteration stays within *)
(* MaxNews: every iteration visits as many items as the first page holds. *)
(* No topic, months 0 or 3, and the clock at its first instant.           *)
InitLive ==
    /\ Init
    /\ pageCounts[1] * (Len(pageCounts) - 1) <= MaxNews
    /\ parameters.topic = <<>>
    /\ parameters.months # 1
    /\ clock = Dt(2024, 5, 15, 13 * MsPerHour)

----------------------------------------------------------------------------
(* Operations. *)

Raise(e) == pc' = "raised" /\ error' = e

(* logging.error of line 157 and of line 179 *)
LogTopic(clean_topic) == [what |-> "topic", topic |-> clean_topic, index |-> 0]

LogDate(i) == [what |-> "date", topic |-> <<>>, index |-> i]

(* SearchContext.news_logic setter: stores the strategy, nothing else. *)
SetNewsLogic(l) ==
    /\ pc = "idle"
    /\ news_logic' = l
    /\ UNCHANGED <<clock, pageCounts, cur, labels, buttonVisible, panelOpen,
                   selected, sort_by, browserOf, calls, parameters, pc, error,
                   search_results, max_date_to_search, news, page, result_index,
                   attempt, clicked, downloaded, log, report, timestamp, date_time>>

(* search, line 245: open_site on the current strategy.  Reading the       *)
(* browser attribute of a strategy that was never given one raises.        *)
OpenSite ==
    /\ pc = "idle"
    /\ calls' = Append(calls, <<news_logic, "open_site">>)
    /\ IF browserOf[news_logic] = Unset
       THEN Raise("AttributeError") /\ UNCHANGED cur
       ELSE pc' = "enter_phrase" /\ cur' = 0 /\ UNCHANGED error
    /\ UNCHANGED <<clock, pageCounts, labels, buttonVisible, panelOpen,
                   selected, sort_by, news_logic, browserOf, parameters,
                   search_results, max_date_to_search, news, page, result_index,
                   attempt, clicked, downloaded, log, report, timestamp, date_time>>

(* search, line 246: enter_phrase submits the query; the browser shows the *)
(* first result page.                                                      *)
EnterPhrase ==
    /\ pc = "enter_phrase"
    /\ calls' = Append(calls, <<news_logic, "enter_phrase">>)
    /\ cur' = 1
    /\ pc' = "order"
    /\ UNCHANGED <<clock, pageCounts, labels, buttonVisible, panelOpen,
                   selected, sort_by, news_logic, browserOf, parameters, error,
                   search_results, max_date_to_search, news, page, result_index,
                   attempt, clicked, downloaded, log, report, timestamp, date_time>>

(* search, line 247: order_and_select_category(parameters.get_topic()). *)
OrderAndSelectCategory ==
    /\ pc = "order"
    /\ calls' = Append(calls, <<news_logic, "order_and_select_category">>)
    /\ \E sortPresent \in BOOLEAN :
         LET clean_topic == Strip(parameters.topic)
             opened == IF buttonVisible THEN ClickFilterButton(panelOpen) ELSE panelOpen
         IN  IF ~sortPresent
             THEN /\ Raise("AssertionError")
                  /\ UNCHANGED <<sort_by, panelOpen, selected, log>>
             ELSE /\ sort_by' = "Newest"
                  /\ IF clean_topic = <<>>
                     THEN /\ pc' = "get_news"
                          /\ UNCHANGED <<error, panelOpen, selected, log>>
                     ELSE IF ~CheckboxVisible(WaitedLabel(clean_topic), labels, opened)
                     THEN /\ panelOpen' = opened
                          /\ log' = log \cup {LogTopic(clean_topic)}
                          /\ pc' = "get_news"
                          /\ UNCHANGED <<error, selected>>
                     ELSE IF CheckedLabel(clean_topic) \notin labels
                     THEN /\ panelOpen' = opened
                          /\ Raise("ElementNotFound")
                          /\ UNCHANGED <<selected, log>>
                     ELSE /\ selected' = selected \cup {CheckedLabel(clean_topic)}
                          /\ panelOpen' = IF buttonVisible
                                          THEN ClickFilterButton(opened) ELSE opened
                          /\ pc' = "get_news"
                          /\ UNCHANGED <<error, log>>
    /\ UNCHANGED <<clock, pageCounts, cur, labels, buttonVisible,
                   news_logic, browserOf, parameters,
                   search_results, max_date_to_search, news, page, result_index,
                   attempt, clicked, downloaded, report, timestamp, date_time>>

(* search, line 248, and get_news, lines 161-168: the result items are     *)
(* located once, here; the cutoff is computed; the list and the page       *)
(* counter start empty.                                                    *)
GetNewsStart ==
    /\ pc = "get_news"
    /\ calls' = Append(calls, <<news_logic, "get_news">>)
    /\ search_results' = pageCounts[cur]
    /\ max_date_to_search' = Cutoff(clock, parameters.months)
    /\ news' = <<>>
    /\ page' = 0
    /\ pc' = "while"
    /\ UNCHANGED <<clock, pageCounts, cur, labels, buttonVisible, panelOpen,
                   selected, sort_by, news_logic, browserOf, parameters, error,
                   result_index, attempt, clicked, downloaded, log, report, timestamp, date_time>>

(* Line 169: the loop condition; line 208 when it is false. *)
WhileCheck ==
    /\ pc = "while"
    /\ IF NextPagePresent(cur, pageCounts)
       THEN pc' = "for" /\ result_index' = 1
       ELSE pc' = "report" /\ UNCHANGED result_index
    /\ UNCHANGED <<clock, pageCounts, cur, labels, buttonVisible, panelOpen,
                   selected, sort_by, news_logic, browserOf, calls, parameters,
                   error, search_results, max_date_to_search, news, page,
                   attempt, clicked, downloaded, log, report, timestamp, date_time>>

(* The record appended for item i of the page displayed. *)
NewInformation(c, i, date, filename) ==
    [title |-> <<c, i>>, date |-> date, image_url |-> filename]

(* The comparison turned round. *)
TooOldReversed(date, cutoff) == DtLess(cutoff, date)

(* date_time < max_date_to_search *)
TooOld(date, cutoff) == DtLess(date, cutoff)

(* What datetime.now() may return when the last reading was c: the same    *)
(* instant or a later one.                                                 *)
Readings(c) == {t \in Instants : DtLeq(c, t)}

(* Lines 170-197: one pass of the for loop over the items located at the   *)
(* start; the attributes are read from the page displayed, the clock is    *)
(* read at line 175.                                                       *)
ForItem ==
    /\ pc = "for"
    /\ result_index <= search_results
    /\ IF result_index > pageCounts[cur]
       THEN /\ Raise("ElementNotFound")
            /\ UNCHANGED <<clock, timestamp, date_time, news, result_index,
                           downloaded, log>>
       ELSE \E raw \in RawValues, now \in Readings(clock) :
              /\ timestamp' = raw
              /\ clock' = now
              /\ date_time' = ItemDate(raw, now)
              /\ IF ParseRaises(raw)
                 THEN /\ Raise(IntOutcome(raw))
                      /\ UNCHANGED <<news, result_index, downloaded, log>>
                 ELSE /\ log' = IF IntOutcome(raw) = "ValueError"
                                THEN log \cup {LogDate(result_index)} ELSE log
                      /\ IF TooOld(date_time', max_date_to_search)
                         THEN /\ pc' = "report"
                              /\ UNCHANGED <<error, news, result_index, downloaded>>
                         ELSE /\ Len(news) < MaxNews
                              /\ downloaded' = downloaded
                                    \cup {Filename(page, raw, result_index)}
                              /\ news' = Append(news,
                                    NewInformation(cur, result_index, date_time',
                                                   Filename(page, raw, result_index)))
                              /\ result_index' = result_index + 1
                              /\ UNCHANGED <<pc, error>>
    /\ UNCHANGED <<pageCounts, cur, labels, buttonVisible, panelOpen,
                   selected, sort_by, news_logic, browserOf, calls, parameters,
                   search_results, max_date_to_search, page, attempt, clicked, report>>

(* The for loop is exhausted; line 199. *)
ForEnd ==
    /\ pc = "for"
    /\ result_index > search_results
    /\ pc' = "click"
    /\ attempt' = 0
    /\ clicked' = 0
    /\ UNCHANGED <<clock, pageCounts, cur, labels, buttonVisible, panelOpen,
                   selected, sort_by, news_logic, browserOf, calls, parameters, error,
                   search_results, max_date_to_search, news, page, result_index,
                   downloaded, log, report, timestamp, date_time>>

(* A click that leaves the page displayed where it was. *)
AfterClickStays(c) == c

(* The page displayed after a click on the next-page link that went        *)
(* through.                                                                *)
AfterClick(c) == c + 1

(* What the retry loop does after a click that went through: the loop has  *)
(* no break, so it goes on to the next attempt.                            *)
AttemptAfterSuccess(a) == a + 1

(* Lines 200-204: one attempt of the retry loop.  click_link raises        *)
(* ElementNotFound when the page has no next-page link; an intercepted     *)
(* click is caught and followed by sleep(1).                               *)
ClickAttempt ==
    /\ pc = "click"
    /\ attempt < attempts
    /\ IF ~NextPagePresent(cur, pageCounts)
       THEN /\ Raise("ElementNotFound")
            /\ UNCHANGED <<cur, attempt, clicked>>
       ELSE \E intercepted \in BOOLEAN :
              IF intercepted
              THEN /\ attempt' = attempt + 1
                   /\ UNCHANGED <<cur, clicked, pc, error>>
              ELSE /\ cur' = AfterClick(cur)
                   /\ clicked' = clicked + 1
                   /\ attempt' = AttemptAfterSuccess(attempt)
                   /\ UNCHANGED <<pc, error>>
    /\ UNCHANGED <<clock, pageCounts, labels, buttonVisible, panelOpen,
                   selected, sort_by, news_logic, browserOf, calls, parameters,
                   search_results, max_date_to_search, news, page, result_index,
                   downloaded, log, report, timestamp, date_time>>

(* The retry loop giving up when no attempt went through. *)
AfterRetriesAbort(a, k) == IF k = 0 THEN "raised" ELSE "while"

(* What follows the retry loop when it ends after a attempts of which k    *)
(* went through.                                                           *)
AfterRetries(a, k) == "while"

(* Line 206, after the retry loop. *)
IncPage ==
    /\ pc = "click"
    /\ attempt >= attempts
    /\ page < MaxIter
    /\ page' = page + 1
    /\ pc' = AfterRetries(attempt, clicked)
    /\ UNCHANGED <<clock, pageCounts, cur, labels, buttonVisible, panelOpen,
                   selected, sort_by, news_logic, browserOf, calls, parameters, error,
                   search_results, max_date_to_search, news, attempt, clicked,
                   result_index, downloaded, log, report, timestamp, date_time>>

(* One row of the report per article. *)
Rows(results) == [i \in 1..Len(results) |-> [Title |-> results[i].title, Date |-> results[i].date]]

(* search, line 249: __generate_report(results, parameters). *)
GenerateReport ==
    /\ pc = "report"
    /\ calls' = Append(calls, <<"context", "generate_report">>)
    /\ report' = Rows(news)
    /\ pc' = "done"
    /\ UNCHANGED <<clock, pageCounts, cur, labels, buttonVisible, panelOpen,
                   selected, sort_by, news_logic, browserOf, parameters, error,
                   search_results, max_date_to_search, news, page, result_index,
                   attempt, clicked, downloaded, log, timestamp, date_time>>

GetNewsStep == GetNewsStart \/ WhileCheck \/ ForItem \/ ForEnd \/ ClickAttempt \/ IncPage

Next ==
    \/ \E l \in Strategies : SetNewsLogic(l)
    \/ OpenSite
    \/ EnterPhrase
    \/ OrderAndSelectCategory
    \/ GetNewsStart
    \/ WhileCheck
    \/ ForItem
    \/ ForEnd
    \/ ClickAttempt
    \/ IncPage
    \/ GenerateReport

Spec == Init /\ [][Next]_vars

SpecFilter == InitFilter /\ [][Next]_vars

(* Execution is synchronous: a step of get_news that can run does run. *)
FairSpec == InitLive /\ [][Next]_vars /\ WF_vars(GetNewsStep)

----------------------------------------------------------------------------
(* Properties. *)

(* get_news has computed the cutoff and has not left by an error before. *)
InGetNews == pc \in {"while", "for", "click", "report", "done"}

(* The step reads result item result_index of the page displayed. *)
ReadsItem == pc = "for" /\ result_index <= search_results /\ result_index <= pageCounts[cur]

(* All three attempts of this iteration were intercepted. *)
AllIntercepted == pc = "click" /\ attempt = attempts /\ clicked = 0

(* C1: in one iteration of the pagination loop no click is made after a    *)
(* click that went through, so the browser advances by at most one result  *)
(* page per iteration.                                                     *)
C1_AtMostOneAdvance == clicked <= 1

(* C2: every article in the list of get_news has a date that is not        *)
(* earlier than the cutoff, every downloaded image belongs to an article   *)
(* of the list, and the step that reads an item dated before the cutoff    *)
(* returns at once with the list and the downloads as they were.           *)
C2_StopsAtFirstOld ==
    /\ [](InGetNews =>
            /\ \A i \in 1..Len(news) : ~DtLess(news[i].date, max_date_to_search)
            /\ downloaded = {news[i].image_url : i \in 1..Len(news)})
    /\ [][(ReadsItem /\ pc' # "raised" /\ DtLess(date_time', max_date_to_search))
            => (pc' = "report" /\ news' = news /\ downloaded' = downloaded)]_vars

C2_Witness ==
    /\ pc = "done"
    /\ Len(report) = 1
    /\ timestamp.kind = "int"
    /\ DtLess(date_time, max_date_to_search)
    /\ result_index = 2

(* The first day, at 00:00:00, of the month months-1 months before the     *)
(* month of now when months > 0, of the month of now when months is 0.     *)
FirstOfMonth(now, months) ==
    LET idx == now.year * 12 + (now.month - 1) - (IF months > 0 THEN months - 1 ELSE 0)
    IN  Dt(idx \div 12, (idx % 12) + 1, 1, 0)

(* C3: the cutoff get_news computes is the first day, at 00:00:00, of the  *)
(* month months-1 months before the current month (of the current month    *)
(* when months is 0).                                                      *)
C3_CutoffIsMidnight ==
    [][pc = "get_news" => max_date_to_search' = FirstOfMonth(clock, parameters.months)]_vars

(* C4: a step that reads an item whose data-timestamp is no integer        *)
(* (a non-numeric text, the empty text, an absent attribute) does not      *)
(* raise, logs the failure, dates the article with the current time and    *)
(* leaves get_news in the for loop.                                        *)
C4_UnparseableFallsBack ==
    [][(ReadsItem /\ timestamp'.kind # "int")
         => /\ pc' # "raised"
            /\ LogDate(result_index) \in log'
            /\ date_time' = clock']_vars

Pipeline == <<"open_site", "enter_phrase", "order_and_select_category", "get_news",
              "generate_report">>

(* C5: every call search makes on a strategy is made after set_browser was *)
(* called on that strategy, and the calls follow the pipeline order.       *)
C5_BrowserSetBeforeUse ==
    \A i \in 1..Len(calls) :
       /\ calls[i][2] = Pipeline[i]
       /\ calls[i][1] \in Strategies => browserOf[calls[i][1]] # Unset

(* C6: after order_and_select_category has returned for a topic that is    *)
(* not empty once trimmed and that labels a checkbox of the page, that     *)
(* checkbox is selected and the panel the button opened is closed again.   *)
C6_TopicSelected ==
    (InGetNews \/ pc = "get_news")
      => \A t \in {Strip(parameters.topic)} :
           (t # <<>> /\ t \in labels)
             => (t \in selected /\ (buttonVisible => ~panelOpen))

(* C7: while no click of the iteration went through a click attempt does   *)
(* not raise, and after three intercepted attempts the page counter is     *)
(* incremented, the list is kept and the loop condition is evaluated       *)
(* again.                                                                  *)
C7_ExhaustionProceeds ==
    [][/\ (pc = "click" /\ clicked = 0) => pc' # "raised"
       /\ AllIntercepted => (pc' = "while" /\ page' = page + 1 /\ news' = news
                             /\ cur' = cur /\ error' = "none")]_vars

C7_Witness ==
    /\ pc = "while"
    /\ attempt = attempts
    /\ clicked = 0
    /\ page = 1
    /\ news # <<>>

(* C8: when the for loop of an iteration is over, the number of items it   *)
(* visited is the number of items of the page displayed.                   *)
C8_VisitsCurrentPage ==
    (pc = "click" /\ attempt = 0) => result_index - 1 = pageCounts[cur]

(* C9: no article of the list comes from a page without next-page control, *)
(* and on a site of one page get_news collects and downloads nothing.      *)
C9_LastPageNeverCollected ==
    /\ \A i \in 1..Len(news) : news[i].title[1] < Len(pageCounts)
    /\ Len(pageCounts) = 1 => (news = <<>> /\ downloaded = {} /\ report = <<>>)

C9_Witness ==
    /\ pc = "done"
    /\ Len(pageCounts) = 1
    /\ pageCounts[1] > 0
    /\ report = <<>>

(* C10: get_news, once started, returns or raises, unless an iteration has *)
(* all three of its click attempts intercepted.                            *)
C10_Terminates ==
    (pc = "get_news") ~> (pc \in {"report", "done", "raised"} \/ AllIntercepted)

C10_Witness ==
    /\ pc = "done"
    /\ page = 2
    /\ Len(report) = 2
    /\ \A i \in 1..Len(news) : news[i].date.year = 2024 /\ news[i].date.month >= 4

====
